---- MODULE Spec2Model ----
(***************************************************************************)
(* EcohSpeechWeb: the conversion fallback chain of app.py                  *)
(* (convert_to_wav_debug, verify_wav_file), the per-job pipeline           *)
(* (transcribe_audio of app.py and of app_streamlit.py) and the batch      *)
(* loops around them (process_single_file, process_files), with the        *)
(* session state (st.session_state) and the temporary files on disk.       *)
(*                                                                         *)
(* Text is a sequence of tokens: a filename is a sequence of characters,   *)
(* a transcription is a sequence of words.  `in`, startswith and endswith  *)
(* are computed on those sequences.  The external tools (ffmpeg, pydub,    *)
(* the Google recognizer, the file system, the streamlit widgets) are the  *)
(* environment: each call draws its outcome from the outcomes the call     *)
(* can have.                                                               *)
(***************************************************************************)
EXTENDS Integers, Sequences, FiniteSets, TLC

VARIABLES
    app,             \* which program runs: "debug" (app.py) or "streamlit"
    pc,              \* position of the single thread of control
    transcriptions,  \* st.session_state.transcriptions
    processed_files, \* st.session_state.processed_files (app_streamlit.py)
    debug_wavs,      \* keys of st.session_state.debug_wavs (app.py)
    disk,            \* temporary files that exist: <<kind, job>>
    uploaded_files,  \* the files of the run in progress (filenames)
    i,               \* loop index of process_files, 1-based
    jobNo,           \* number of jobs started in the session (names the temp files)
    runs,            \* number of runs (button presses) started in the session
    temp_path,       \* temp_path / audio_path of the job: a path or None
    wav_path,        \* wav_path of transcribe_audio: a path or None
    text,            \* the value transcribe_audio returns
    strategies,      \* convert_to_wav_debug: the list of strategies
    s,               \* convert_to_wav_debug: index of the attempt (enumerate)
    chain_wav,       \* convert_to_wav_debug: its local wav_path
    wavFile,         \* content of the file at chain_wav
    wavWriter,       \* index of the attempt that last wrote chain_wav (0: mkstemp)
    attempts,        \* names of the strategies attempted so far, in order
    lastOutcome,     \* how the latest attempt ended
    remoteCalls,     \* calls of recognize_google made for the job
    ended,           \* how the job really ended (decides nothing in the program)
    calib,           \* how adjust_for_ambient_noise ended for the job
    truth,           \* per appended result: run, index and how the job really ended
    excepted,        \* indices of the run's jobs whose except handler ran
    progress,        \* progress bar of process_files: <<numerator, denominator>>
    summary,         \* the counts process_files reports: <<successful, failed>>
    escaped,         \* an exception left process_files / process_single_file
    magic            \* leading bytes of the file given to convert_to_wav_debug

vars == <<app, pc, transcriptions, processed_files, debug_wavs, disk,
          uploaded_files, i, jobNo, runs, temp_path, wav_path, text,
          strategies, s, chain_wav, wavFile, wavWriter, attempts, lastOutcome,
          remoteCalls, ended, calib, truth, excepted, progress, summary, escaped, magic>>

\* ---------------------------------------------------------------- bounds
\* Jobs (uploaded files processed) in one session, over all its runs.
MaxJobs == 2

\* ------------------------------------------------------- program constants
MinWavSize == 1000
MinFrames == 100
MinRawSize == 100
MinAudioBytes == 100
SampleWidth == 2

\* No path (None), comparable with the paths.
None == <<"none", 0>>

\* ------------------------------------------------------------------ text
IsInfix(sub, str) ==
    \E k \in 0..(Len(str) - Len(sub)) : SubSeq(str, k + 1, k + Len(sub)) = sub

StartsWith(str, pre) ==
    Len(pre) <= Len(str) /\ SubSeq(str, 1, Len(pre)) = pre

EndsWith(str, suf) ==
    Len(suf) <= Len(str) /\ SubSeq(str, Len(str) - Len(suf) + 1, Len(str)) = suf

UpperCase == {<<"A", "a">>, <<"D", "d">>, <<"G", "g">>, <<"O", "o">>,
              <<"P", "p">>, <<"T", "t">>, <<"U", "u">>, <<"W", "w">>}

LowerChar(c) ==
    IF \E p \in UpperCase : p[1] = c
    THEN (CHOOSE p \in UpperCase : p[1] = c)[2]
    ELSE c

Lower(str) == [k \in 1..Len(str) |-> LowerChar(str[k])]

\* What the first four bytes of an uploaded file can be: the signature of
\* an Ogg container, of a RIFF container, or no known signature.  The
\* program never reads them: convert_to_wav_debug is given the path and the
\* filename and hands the path to the tools.
Magics == {"OggS", "RIFF", "other"}

\* The filenames of the runs: characters, as the user's file is named.
NamePTT == <<"P", "T", "T", "-", "1", ".", "o", "p", "u", "s">>
NameWA == <<"W", "A", "7", ".", "m", "p", "3">>
NameAUD == <<"A", "U", "D", "-", "2", ".", "m", "4", "a">>
NameOGG == <<"n", ".", "O", "G", "G">>
NameOga == <<"n", ".", "o", "g", "a">>
NameMp3 == <<"n", ".", "m", "p", "3">>
NameLowerWa == <<"w", "a", ".", "m", "p", "3">>
NameOggInside == <<"n", ".", "o", "g", "g", ".", "m", "p", "3">>
NameWav == <<"n", ".", "w", "a", "v">>

ChainFilenames == {NamePTT, NameWA, NameAUD, NameOGG, NameOga, NameMp3,
                   NameLowerWa, NameOggInside, NameWav}

\* ------------------------------------------------------------ wav files
\* What a file at the output path can hold: the header fields wave.open
\* reads and the byte size; header = FALSE is a file wave.open rejects.
EmptyFile == [channels |-> 0, framerate |-> 0, frames |-> 0, size |-> 0, header |-> FALSE]

\* Readable files of every channel count, rate and length; one that is 1000
\* frames at 16 kHz (0.0625 s); one of exactly 1000 bytes; one whose frame
\* rate is 0; one wave.open rejects; the empty file.
WavContents ==
    [channels : {1, 2}, framerate : {400, 16000}, frames : {50, 32000},
     size : {64044}, header : {TRUE}]
    \cup {[channels |-> 1, framerate |-> 16000, frames |-> 1000, size |-> 64044, header |-> TRUE],
          [channels |-> 1, framerate |-> 16000, frames |-> 32000, size |-> 1000, header |-> TRUE],
          [channels |-> 1, framerate |-> 0, frames |-> 32000, size |-> 64044, header |-> TRUE],
          [channels |-> 1, framerate |-> 16000, frames |-> 32000, size |-> 64044, header |-> FALSE],
          EmptyFile}

\* The tool left the file at the output path as it was.
Keep == [channels |-> 0, framerate |-> 0, frames |-> 0, size |-> 0, header |-> TRUE]

RawSizes == {0, 100, 32000}

\* The frame-count check left out.
verify_wav_fileNoFrames(f) ==
    IF ~f.header \/ f.framerate = 0
    THEN [valid |-> FALSE, error |-> TRUE]
    ELSE [valid |-> ~(f.frames * 10 < f.framerate), error |-> FALSE]

\* The channel count and the frame rate taken into the verdict.
verify_wav_fileStrict(f) ==
    IF ~f.header \/ f.framerate = 0
    THEN [valid |-> FALSE, error |-> TRUE]
    ELSE [valid |-> /\ ~(f.frames * 10 < f.framerate)
                    /\ ~(f.frames < MinFrames)
                    /\ f.channels = 1
                    /\ f.framerate = 16000,
          error |-> FALSE]

\* verify_wav_file: valid unless the header cannot be read, the division
\* by the frame rate fails, duration < 0.1 or frames < 100.  Channels and
\* frame rate are shown with a warning sign and do not change 'valid'.
\* duration < 0.1 is n_frames / framerate < 1/10.
verify_wav_file(f) ==
    IF ~f.header \/ f.framerate = 0
    THEN [valid |-> FALSE, error |-> TRUE]
    ELSE [valid |-> ~(f.frames * 10 < f.framerate) /\ ~(f.frames < MinFrames),
          error |-> FALSE,
          channels |-> f.channels,
          framerate |-> f.framerate,
          frames |-> f.frames,
          size |-> f.size]

\* ------------------------------------------------- convert_to_wav_debug
is_whatsapp(filename) ==
    \/ IsInfix(<<"P", "T", "T", "-">>, filename)
    \/ IsInfix(<<"W", "A">>, filename)
    \/ IsInfix(<<"A", "U", "D", "-">>, filename)

\* The extension compared without lower().
is_opusCaseSensitive(filename) ==
    \/ EndsWith(filename, <<".", "o", "p", "u", "s">>)
    \/ EndsWith(filename, <<".", "o", "g", "g">>)
    \/ EndsWith(filename, <<".", "o", "g", "a">>)

is_opus(filename) ==
    \/ EndsWith(Lower(filename), <<".", "o", "p", "u", "s">>)
    \/ EndsWith(Lower(filename), <<".", "o", "g", "g">>)
    \/ EndsWith(Lower(filename), <<".", "o", "g", "a">>)

Permissive == [name |-> "permissive", kind |-> "cmd"]
Standard == [name |-> "standard", kind |-> "cmd"]
Pydub == [name |-> "pydub", kind |-> "pydub"]
TwoStep == [name |-> "two_step", kind |-> "two_step"]

BuildStrategies(filename) ==
    (IF is_opus(filename) \/ is_whatsapp(filename) THEN <<Permissive>> ELSE <<>>)
    \o <<Standard, Pydub, TwoStep>>

InPath(j) == <<"in", j>>
WavPath(j) == <<"wav", j>>
RawPath(j) == <<"raw", j>>

\* The file of the job in progress.
filename == uploaded_files[i]

\* What the chain leaves alone.
ChainFrame ==
    UNCHANGED <<app, transcriptions, processed_files, debug_wavs, uploaded_files,
                i, jobNo, runs, temp_path, wav_path, text, remoteCalls,
                ended, calib, truth, excepted, progress, summary, escaped, magic>>

\* Lines 180-236: mkstemp creates the (empty) output file, the strategy
\* list is built from the filename.
ChainStart ==
    /\ pc = "chain_start"
    /\ chain_wav' = WavPath(jobNo)
    /\ disk' = disk \cup {WavPath(jobNo)}
    /\ wavFile' = EmptyFile
    /\ wavWriter' = 0
    /\ strategies' = BuildStrategies(filename)
    /\ s' = 1
    /\ attempts' = <<>>
    /\ lastOutcome' = "none"
    /\ pc' = "attempt"
    /\ ChainFrame

\* The file at the output path after a tool ran: written anew, or left as
\* it was.
Written(w) == IF w = Keep THEN wavFile ELSE w

Writer(w) == IF w = Keep THEN wavWriter ELSE s

\* The verdict of verify_wav_file ignored.
CmdAcceptsUnverified(out, f) ==
    /\ out = "rc0"
    /\ chain_wav \in disk
    /\ f.size > MinWavSize

\* Lines 325-332: returncode 0, the file exists and is larger than 1000
\* bytes, and verify_wav_file says valid.
CmdAccepts(out, f) ==
    /\ out = "rc0"
    /\ chain_wav \in disk
    /\ f.size > MinWavSize
    /\ verify_wav_file(f).valid

\* Lines 259-263.
PydubAccepts(out, f) ==
    /\ out = "ok"
    /\ chain_wav \in disk
    /\ f.size > MinWavSize
    /\ verify_wav_file(f).valid

\* The exit status of stage 2 not looked at.
Stage2AcceptsAnyExit(out, f) ==
    /\ f.size > MinWavSize
    /\ verify_wav_file(f).valid

\* Lines 303-307.
Stage2Accepts(out, f) ==
    /\ out = "rc0"
    /\ f.size > MinWavSize
    /\ verify_wav_file(f).valid

\* Line 288.
Stage1Accepts(out, rawsize) ==
    out = "rc0" /\ rawsize > MinRawSize

\* How an attempt that did not return is recorded.
Outcome(out, accepted) ==
    IF accepted THEN "Success"
    ELSE IF out = "timeout" THEN "Timeout"
    ELSE IF out \in {"rc0", "ok"} THEN "ValidationFailure"
    ELSE "ToolFailure"

Logged == Append(attempts, strategies[s].name)

\* A loop whose command branch had no return: after an accepted file the
\* next strategy is tried all the same.
AttemptCmdGoesOn ==
    /\ pc = "attempt"
    /\ s <= Len(strategies)
    /\ strategies[s].kind = "cmd"
    /\ \E out \in {"rc0", "rc1", "timeout", "exception"}, w \in WavContents \cup {Keep} :
        /\ out = "rc0" => w # Keep
        /\ out = "exception" => w = Keep
        /\ wavFile' = Written(w)
        /\ wavWriter' = Writer(w)
        /\ attempts' = Logged
        /\ lastOutcome' = Outcome(out, CmdAccepts(out, Written(w)))
        /\ pc' = "attempt"
        /\ s' = s + 1
    /\ UNCHANGED <<disk, strategies, chain_wav>>
    /\ ChainFrame

\* Lines 317-339 with the handlers of lines 341-345: subprocess.run with
\* timeout=30.  The tool exits 0 having written the output, exits non-zero
\* or is killed at the timeout having written nothing or a partial file, or
\* cannot be started.
AttemptCmd ==
    /\ pc = "attempt"
    /\ s <= Len(strategies)
    /\ strategies[s].kind = "cmd"
    /\ \E out \in {"rc0", "rc1", "timeout", "exception"}, w \in WavContents \cup {Keep} :
        /\ out = "rc0" => w # Keep
        /\ out = "exception" => w = Keep
        /\ wavFile' = Written(w)
        /\ wavWriter' = Writer(w)
        /\ attempts' = Logged
        /\ lastOutcome' = Outcome(out, CmdAccepts(out, Written(w)))
        /\ IF CmdAccepts(out, Written(w))
           THEN pc' = "chain_returned" /\ s' = s
           ELSE pc' = "attempt" /\ s' = s + 1
    /\ UNCHANGED <<disk, strategies, chain_wav>>
    /\ ChainFrame

\* Lines 245-266: AudioSegment.from_file and audio.export run the decoder
\* with no timeout.  load_error: from_file raises; export_error: export
\* raises, possibly after writing; ok: export wrote the file; hang: the
\* decoder never completes and the call never returns.
AttemptPydub ==
    /\ pc = "attempt"
    /\ s <= Len(strategies)
    /\ strategies[s].kind = "pydub"
    /\ \E out \in {"ok", "load_error", "export_error", "hang"}, w \in WavContents \cup {Keep} :
        /\ out = "ok" => w # Keep
        /\ out \in {"load_error", "hang"} => w = Keep
        /\ wavFile' = Written(w)
        /\ wavWriter' = Writer(w)
        /\ attempts' = Logged
        /\ IF out = "hang"
           THEN pc' = "blocked" /\ s' = s /\ lastOutcome' = "Hung"
           ELSE /\ lastOutcome' = Outcome(out, PydubAccepts(out, Written(w)))
                /\ IF PydubAccepts(out, Written(w))
                   THEN pc' = "chain_returned" /\ s' = s
                   ELSE pc' = "attempt" /\ s' = s + 1
    /\ UNCHANGED <<disk, strategies, chain_wav>>
    /\ ChainFrame

\* Lines 269-290 and 308-314: the raw file is created, stage 1 runs with
\* timeout=30; unless it exits 0 with more than 100 bytes of raw PCM the
\* attempt ends and the finally clause deletes the raw file.
TwoStepStage1 ==
    /\ pc = "attempt"
    /\ s <= Len(strategies)
    /\ strategies[s].kind = "two_step"
    /\ \E out \in {"rc0", "rc1", "timeout", "exception"}, rawsize \in RawSizes :
        /\ out # "rc0" => rawsize = 0
        /\ attempts' = Logged
        /\ IF Stage1Accepts(out, rawsize)
           THEN /\ pc' = "stage2"
                /\ s' = s
                /\ disk' = disk \cup {RawPath(jobNo)}
                /\ lastOutcome' = "Stage1"
           ELSE /\ pc' = "attempt"
                /\ s' = s + 1
                /\ disk' = disk \ {RawPath(jobNo)}
                /\ lastOutcome' = Outcome(out, FALSE)
    /\ UNCHANGED <<strategies, chain_wav, wavFile, wavWriter>>
    /\ ChainFrame

\* The raw file unlinked at the end of the try block, with no finally
\* clause: a timeout or an exception of stage 2 leaves it.
TwoStepStage2NoFinally ==
    /\ pc = "stage2"
    /\ \E out \in {"rc0", "rc1", "timeout", "exception"}, w \in WavContents \cup {Keep} :
        /\ out = "rc0" => w # Keep
        /\ out = "exception" => w = Keep
        /\ wavFile' = Written(w)
        /\ wavWriter' = Writer(w)
        /\ lastOutcome' = Outcome(out, Stage2Accepts(out, Written(w)))
        /\ IF Stage2Accepts(out, Written(w))
           THEN pc' = "chain_returned" /\ s' = s
           ELSE pc' = "attempt" /\ s' = s + 1
        /\ disk' = IF out \in {"timeout", "exception"}
                   THEN disk
                   ELSE disk \ {RawPath(jobNo)}
    /\ UNCHANGED <<strategies, chain_wav, attempts>>
    /\ ChainFrame

\* Lines 291-307 and 312-314: stage 2 wraps the raw PCM, with timeout=30;
\* the finally clause deletes the raw file on every exit.
TwoStepStage2 ==
    /\ pc = "stage2"
    /\ \E out \in {"rc0", "rc1", "timeout", "exception"}, w \in WavContents \cup {Keep} :
        /\ out = "rc0" => w # Keep
        /\ out = "exception" => w = Keep
        /\ wavFile' = Written(w)
        /\ wavWriter' = Writer(w)
        /\ lastOutcome' = Outcome(out, Stage2Accepts(out, Written(w)))
        /\ IF Stage2Accepts(out, Written(w))
           THEN pc' = "chain_returned" /\ s' = s
           ELSE pc' = "attempt" /\ s' = s + 1
    /\ disk' = disk \ {RawPath(jobNo)}
    /\ UNCHANGED <<strategies, chain_wav, attempts>>
    /\ ChainFrame

\* The exception raised without deleting the output file.
ChainExhaustedKeepsWav ==
    /\ pc = "attempt"
    /\ s > Len(strategies)
    /\ pc' = "chain_raised"
    /\ UNCHANGED <<disk, wavFile, strategies, s, chain_wav, wavWriter, attempts, lastOutcome>>
    /\ ChainFrame

\* Lines 347-362: the loop ended without a return; the output file is
\* deleted and the exception raised.
ChainExhausted ==
    /\ pc = "attempt"
    /\ s > Len(strategies)
    /\ disk' = disk \ {chain_wav}
    /\ wavFile' = EmptyFile
    /\ pc' = "chain_raised"
    /\ UNCHANGED <<strategies, s, chain_wav, wavWriter, attempts, lastOutcome>>
    /\ ChainFrame

ChainNext ==
    \/ ChainStart
    \/ AttemptCmd
    \/ AttemptPydub
    \/ TwoStepStage1
    \/ TwoStepStage2
    \/ ChainExhausted

\* convert_to_wav_debug called for one uploaded file, as transcribe_audio
\* of app.py calls it (line 398): the temp copy of the input exists.
ChainInit ==
    /\ app = "debug"
    /\ pc = "chain_start"
    /\ transcriptions = <<>>
    /\ processed_files = <<>>
    /\ debug_wavs = {}
    /\ disk = {InPath(1)}
    /\ uploaded_files \in {<<f>> : f \in ChainFilenames}
    /\ i = 1
    /\ jobNo = 1
    /\ runs = 1
    /\ temp_path = InPath(1)
    /\ wav_path = None
    /\ text = <<>>
    /\ strategies = <<>>
    /\ s = 0
    /\ chain_wav = None
    /\ wavFile = EmptyFile
    /\ wavWriter = 0
    /\ attempts = <<>>
    /\ lastOutcome = "none"
    /\ remoteCalls = 0
    /\ ended = "none"
    /\ calib = "none"
    /\ truth = <<>>
    /\ excepted = {}
    /\ progress = <<0, 1>>
    /\ summary = <<0, 0>>
    /\ escaped = FALSE
    /\ magic \in Magics

ChainSpec == ChainInit /\ [][ChainNext]_vars

\* The blocking calls return: every step that can be taken is taken.
ChainFairSpec == ChainInit /\ [][ChainNext]_vars /\ WF_vars(ChainNext)

\* --------------------------------------------------------------- texts
\* The cross mark that opens every failure text of app.py.
X == "(x)"

\* str(e) of an exception.
ExcMsg == <<"boom">>

\* Lines 351-362: the message of the exception the exhausted chain raises.
ChainMsg == <<X, "**", "No", "se", "pudo", "convertir", "el", "archivo", "**">>

\* What the remote recognizer can transcribe.
RemoteTexts == {<<"hola", "mundo">>, <<"Error", "de", "sistema">>}

\* app.py, lines 395, 401, 443, 461, 474-485, 489-499, 505, 702.
TxtNoRecognizer == <<X, "Error", ":", "Reconocedor", "de", "voz", "no", "disponible">>
TxtNoWav == <<X, "Error", ":", "No", "se", "pudo", "crear", "WAV">>
TxtAudioVacio == <<X, "Error", ":", "Audio", "vacio">>
TxtRespuestaVacia == <<X, "La", "API", "devolvio", "respuesta", "vacia">>
TxtNoEntender == <<X, "**", "No", "se", "pudo", "entender", "el", "audio", "**", "Verifica">>
TxtErrorServicio(e) == <<X, "**", "Error", "del", "servicio", "Google", "Speech", ":", "**">> \o e
TxtError(e) == <<X, "Error", ":">> \o e
TxtErrorCritico(e) == <<X, "Error", "critico", ":">> \o e

\* app_streamlit.py, lines 76, 93, 95, 97.
StTxtConversion == <<"Error", "en", "conversion", "a", "WAV">>
StTxtNoReconocer == <<"No", "se", "pudo", "reconocer", "el", "audio">>
StTxtServicio(e) == <<"Error", "del", "servicio", ":">> \o e
StTxtInesperado(e) == <<"Error", "inesperado", ":">> \o e

\* ------------------------------------------------------- session, app.py
\* The locals of a job, before the job assigns them.
ResetChain ==
    /\ strategies' = <<>>
    /\ s' = 0
    /\ chain_wav' = None
    /\ wavFile' = EmptyFile
    /\ wavWriter' = 0
    /\ attempts' = <<>>
    /\ lastOutcome' = "none"

ResetJob ==
    /\ temp_path' = None
    /\ wav_path' = None
    /\ text' = <<>>
    /\ remoteCalls' = 0
    /\ ended' = "none"
    /\ calib' = "none"
    /\ ResetChain

ChainVars == <<strategies, s, chain_wav, wavFile, wavWriter, attempts, lastOutcome>>

JobVars == <<temp_path, wav_path, text, remoteCalls, ended, calib>>

SessionVars == <<transcriptions, processed_files, debug_wavs, truth>>

RunVars == <<app, uploaded_files, i, jobNo, runs, excepted, progress, summary, escaped, magic>>

\* app.py lines 616-624: the button calls process_single_file with the one
\* uploaded file.  The session uploads a voice note, the name on which the
\* chain is longest; ChainSpec runs the chain on every kind of name.
StartSingle ==
    /\ app = "debug"
    /\ pc = "idle"
    /\ jobNo < MaxJobs
    /\ uploaded_files' = <<NamePTT>>
    /\ i' = 1
    /\ runs' = runs + 1
    /\ jobNo' = jobNo + 1
    /\ excepted' = {}
    /\ magic' = "OggS"
    /\ pc' = "save_tmp"
    /\ ResetJob
    /\ UNCHANGED <<app, disk, progress, summary, escaped>>
    /\ UNCHANGED SessionVars

\* app.py lines 664-670: the temp copy is created, then written; temp_path
\* is assigned after the with block.
SaveTempSingle ==
    /\ app = "debug"
    /\ pc = "save_tmp"
    /\ \E out \in {"ok", "create_error", "write_error"} :
        /\ disk' = IF out = "create_error" THEN disk ELSE disk \cup {InPath(jobNo)}
        /\ temp_path' = IF out = "ok" THEN InPath(jobNo) ELSE None
        /\ pc' = IF out = "ok" THEN "test_recognizer" ELSE "except"
    /\ UNCHANGED <<wav_path, text, remoteCalls, ended, calib>>
    /\ UNCHANGED ChainVars
    /\ UNCHANGED SessionVars
    /\ UNCHANGED RunVars

\* The finally clause of transcribe_audio, app.py lines 507-515.
FinallyWav(d, wp, dbg) ==
    IF wp # None /\ wp \in d /\ filename \notin dbg THEN d \ {wp} ELSE d

\* app.py lines 393-395.
TestRecognizer ==
    /\ app = "debug"
    /\ pc = "test_recognizer"
    /\ \E ok \in BOOLEAN :
        IF ok
        THEN /\ pc' = "chain_start"
             /\ UNCHANGED <<text, ended, disk>>
        ELSE /\ pc' = "append"
             /\ text' = TxtNoRecognizer
             /\ ended' = "no_recognizer"
             /\ disk' = FinallyWav(disk, wav_path, debug_wavs)
    /\ UNCHANGED <<temp_path, wav_path, remoteCalls, calib>>
    /\ UNCHANGED ChainVars
    /\ UNCHANGED SessionVars
    /\ UNCHANGED RunVars

\* app.py lines 398-413: the chain returned; the WAV is read and its bytes
\* are kept in debug_wavs.  A failure to read it goes to the handler of
\* line 501 and the finally clause.  The locals of convert_to_wav_debug go
\* out of scope with its return; the file it wrote stays.
ChainReturned ==
    /\ app = "debug"
    /\ pc = "chain_returned"
    /\ wav_path' = chain_wav
    /\ \E out \in {"ok", "read_error"} :
        IF chain_wav \notin disk
        THEN /\ text' = TxtNoWav
             /\ ended' = "conversion"
             /\ pc' = "append"
             /\ UNCHANGED debug_wavs
             /\ disk' = FinallyWav(disk, chain_wav, debug_wavs)
        ELSE IF out = "ok"
        THEN /\ debug_wavs' = debug_wavs \cup {filename}
             /\ pc' = "recognize"
             /\ UNCHANGED <<text, ended, disk>>
        ELSE /\ text' = TxtError(ExcMsg)
             /\ ended' = "critical"
             /\ pc' = "append"
             /\ UNCHANGED debug_wavs
             /\ disk' = FinallyWav(disk, chain_wav, debug_wavs)
    /\ UNCHANGED <<temp_path, remoteCalls, calib>>
    /\ strategies' = <<>>
    /\ s' = 0
    /\ chain_wav' = None
    /\ wavWriter' = 0
    /\ attempts' = <<>>
    /\ lastOutcome' = "none"
    /\ UNCHANGED wavFile
    /\ UNCHANGED <<transcriptions, processed_files, truth>>
    /\ UNCHANGED RunVars

\* A transcribe_audio that swallowed the exception of the exhausted chain
\* and went on to the recognizer.
ChainRaisedContinues ==
    /\ app = "debug"
    /\ pc = "chain_raised"
    /\ wav_path' = WavPath(jobNo)
    /\ pc' = "recognize"
    /\ ResetChain
    /\ UNCHANGED <<temp_path, text, remoteCalls, ended, calib, disk>>
    /\ UNCHANGED SessionVars
    /\ UNCHANGED RunVars

\* app.py lines 501-515: the exception of the exhausted chain is caught in
\* transcribe_audio; wav_path was never assigned.
ChainRaised ==
    /\ app = "debug"
    /\ pc = "chain_raised"
    /\ text' = TxtError(ChainMsg)
    /\ ended' = "conversion"
    /\ disk' = FinallyWav(disk, wav_path, debug_wavs)
    /\ pc' = "append"
    /\ UNCHANGED <<temp_path, wav_path, remoteCalls, calib>>
    /\ ResetChain
    /\ UNCHANGED SessionVars
    /\ UNCHANGED RunVars

\* len(audio_data.frame_data) of the validated file.
AudioBytes(f) == f.frames * SampleWidth * f.channels

\* app.py lines 417-499: what transcribe_audio returns, from how the
\* calibration (c), the reading and the remote call (r, transcript t) end.
RecognizeText(c, r, t) ==
    IF r = "open_error" \/ c = "other_error" \/ r = "record_error" THEN TxtError(ExcMsg)
    ELSE IF AudioBytes(wavFile) < MinAudioBytes THEN TxtAudioVacio
    ELSE IF r = "text" THEN t
    ELSE IF r = "empty" THEN TxtRespuestaVacia
    ELSE IF r = "unknown" THEN TxtNoEntender
    ELSE IF r = "request_error" THEN TxtErrorServicio(ExcMsg)
    ELSE TxtError(ExcMsg)

\* Calls of recognize_google: none when the audio is not read, two after
\* UnknownValueError (line 469 asks again with show_all=True).
RecognizeCalls(c, r) ==
    IF r = "open_error" \/ c = "other_error" \/ r = "record_error" THEN 0
    ELSE IF AudioBytes(wavFile) < MinAudioBytes THEN 0
    ELSE IF r = "unknown" THEN 2
    ELSE 1

RecognizeEnded(c, r) ==
    IF r = "open_error" \/ c = "other_error" \/ r = "record_error" THEN "critical"
    ELSE IF AudioBytes(wavFile) < MinAudioBytes THEN "no_audio"
    ELSE IF r = "text" THEN "success"
    ELSE IF r = "empty" THEN "empty"
    ELSE IF r = "unknown" THEN "unrecognized"
    ELSE IF r = "request_error" THEN "service"
    ELSE "critical"

\* app.py lines 417-515.  c: adjust_for_ambient_noise passes, raises
\* AttributeError (caught at line 432) or raises something else.
Recognize ==
    /\ app = "debug"
    /\ pc = "recognize"
    /\ \E c \in {"ok", "attr_error", "other_error"},
          r \in {"open_error", "record_error", "text", "empty", "unknown",
                 "request_error", "exception"},
          t \in RemoteTexts :
        /\ r = "open_error" => c = "ok"
        /\ (r # "text" \/ c = "other_error") => t = <<"hola", "mundo">>
        /\ (c = "other_error") => r = "exception"
        /\ calib' = IF r = "open_error" THEN "none" ELSE c
        /\ text' = RecognizeText(c, r, t)
        /\ remoteCalls' = RecognizeCalls(c, r)
        /\ ended' = RecognizeEnded(c, r)
    /\ disk' = FinallyWav(disk, wav_path, debug_wavs)
    /\ pc' = "append"
    /\ UNCHANGED <<temp_path, wav_path>>
    /\ wavFile' = EmptyFile
    /\ UNCHANGED <<strategies, s, chain_wav, wavWriter, attempts, lastOutcome>>
    /\ UNCHANGED SessionVars
    /\ UNCHANGED RunVars

Result(name, txt) == [filename |-> name, transcription |-> txt]

Truth(how) == [run |-> runs, idx |-> i, outcome |-> how]

\* app.py lines 677-683.
AppendSingle ==
    /\ app = "debug"
    /\ pc = "append"
    /\ transcriptions' = Append(transcriptions, Result(filename, text))
    /\ truth' = Append(truth, Truth(ended))
    /\ pc' = "final_ui"
    /\ UNCHANGED <<processed_files, debug_wavs, disk>>
    /\ UNCHANGED JobVars
    /\ UNCHANGED ChainVars
    /\ UNCHANGED RunVars

\* app.py lines 685-693: the closing messages, inside the try block.
FinalUI ==
    /\ app = "debug"
    /\ pc = "final_ui"
    /\ \E raised \in BOOLEAN : pc' = IF raised THEN "except" ELSE "finally"
    /\ UNCHANGED disk
    /\ UNCHANGED JobVars
    /\ UNCHANGED ChainVars
    /\ UNCHANGED SessionVars
    /\ UNCHANGED RunVars

\* A handler that put its critical-error result in the place of the result
\* the job had already appended.
ExceptSingleReplaces ==
    /\ app = "debug"
    /\ pc = "except"
    /\ LET done == Len(truth) > 0 /\ truth[Len(truth)].run = runs
           n == IF done THEN Len(truth) - 1 ELSE Len(truth)
       IN /\ transcriptions' = Append(SubSeq(transcriptions, 1, n),
                                      Result(filename, TxtErrorCritico(ExcMsg)))
          /\ truth' = Append(SubSeq(truth, 1, n), Truth("critical"))
    /\ excepted' = excepted \cup {i}
    /\ pc' = "finally"
    /\ UNCHANGED <<processed_files, debug_wavs, disk>>
    /\ UNCHANGED JobVars
    /\ UNCHANGED ChainVars
    /\ UNCHANGED <<app, uploaded_files, i, jobNo, runs, progress, summary, escaped, magic>>

\* app.py lines 695-705: the handler appends a critical-error result.
ExceptSingle ==
    /\ app = "debug"
    /\ pc = "except"
    /\ transcriptions' = Append(transcriptions, Result(filename, TxtErrorCritico(ExcMsg)))
    /\ truth' = Append(truth, Truth("critical"))
    /\ excepted' = excepted \cup {i}
    /\ pc' = "finally"
    /\ UNCHANGED <<processed_files, debug_wavs, disk>>
    /\ UNCHANGED JobVars
    /\ UNCHANGED ChainVars
    /\ UNCHANGED <<app, uploaded_files, i, jobNo, runs, progress, summary, escaped, magic>>

\* app.py lines 707-713, and the return to the page.
FinallySingle ==
    /\ app = "debug"
    /\ pc = "finally"
    /\ disk' = IF temp_path # None THEN disk \ {temp_path} ELSE disk
    /\ pc' = "idle"
    /\ ResetJob
    /\ UNCHANGED SessionVars
    /\ UNCHANGED RunVars

\* app.py lines 593-595.
ClearDebug ==
    /\ app = "debug"
    /\ pc = "idle"
    /\ debug_wavs' = {}
    /\ UNCHANGED <<pc, disk, transcriptions, processed_files, truth>>
    /\ UNCHANGED JobVars
    /\ UNCHANGED ChainVars
    /\ UNCHANGED RunVars

\* ---------------------------------------------- session, app_streamlit.py
\* The batches a user can upload.
Batches == UNION {[1..n -> {NameMp3, NameWav}] : n \in 1..MaxJobs}

\* app_streamlit.py lines 172-176 and 193-200.
StartBatch ==
    /\ app = "streamlit"
    /\ pc = "idle"
    /\ \E files \in Batches :
        /\ jobNo + Len(files) <= MaxJobs
        /\ uploaded_files' = files
    /\ i' = 1
    /\ runs' = runs + 1
    /\ excepted' = {}
    /\ progress' = <<0, 1>>
    /\ pc' = "progress"
    /\ ResetJob
    /\ UNCHANGED <<app, disk, jobNo, summary, escaped, magic>>
    /\ UNCHANGED SessionVars

\* app_streamlit.py lines 202-206: the loop takes the next file and shows
\* (i + 1) / len(uploaded_files) before the file is processed.
Progress ==
    /\ app = "streamlit"
    /\ pc = "progress"
    /\ i <= Len(uploaded_files)
    /\ progress' = <<i, Len(uploaded_files)>>
    /\ jobNo' = jobNo + 1
    /\ pc' = "save_tmp"
    /\ ResetJob
    /\ UNCHANGED <<app, disk, uploaded_files, i, runs, excepted, summary, escaped, magic>>
    /\ UNCHANGED SessionVars

\* app_streamlit.py lines 208-212: the temp copy is created, then written;
\* audio_path is assigned last.
SaveTemp ==
    /\ app = "streamlit"
    /\ pc = "save_tmp"
    /\ \E out \in {"ok", "create_error", "write_error"} :
        /\ disk' = IF out = "create_error" THEN disk ELSE disk \cup {InPath(jobNo)}
        /\ temp_path' = IF out = "ok" THEN InPath(jobNo) ELSE None
        /\ pc' = IF out = "ok" THEN "convert" ELSE "except"
    /\ UNCHANGED <<wav_path, text, remoteCalls, ended, calib>>
    /\ UNCHANGED ChainVars
    /\ UNCHANGED SessionVars
    /\ UNCHANGED RunVars

\* app_streamlit.py line 47: file_path.split('.')[-1].lower() == 'wav'.
IsWavName(name) == EndsWith(Lower(name), <<".", "w", "a", "v">>)

\* app_streamlit.py lines 44-66 and 73-76: a WAV is used as it is; anything
\* else is decoded and exported to file_path + '.wav'.  load_error: nothing
\* was written; export_error: export raised after creating the file.
Convert ==
    /\ app = "streamlit"
    /\ pc = "convert"
    /\ \E out \in {"ok", "load_error", "export_error"} :
        IF IsWavName(filename)
        THEN /\ out = "ok"
             /\ wav_path' = temp_path
             /\ pc' = "transcribe"
             /\ UNCHANGED <<disk, text, ended>>
        ELSE IF out = "ok"
        THEN /\ wav_path' = WavPath(jobNo)
             /\ disk' = disk \cup {WavPath(jobNo)}
             /\ pc' = "transcribe"
             /\ UNCHANGED <<text, ended>>
        ELSE /\ wav_path' = None
             /\ disk' = IF out = "export_error" THEN disk \cup {WavPath(jobNo)} ELSE disk
             /\ text' = StTxtConversion
             /\ ended' = "conversion"
             /\ pc' = "append"
    /\ UNCHANGED <<temp_path, remoteCalls, calib>>
    /\ UNCHANGED ChainVars
    /\ UNCHANGED SessionVars
    /\ UNCHANGED RunVars

\* app_streamlit.py lines 78-97: what transcribe_audio returns.
TranscribeText(c, r, t) ==
    IF r = "open_error" \/ c = "error" \/ r = "record_error" THEN StTxtInesperado(ExcMsg)
    ELSE IF r = "text" THEN t
    ELSE IF r = "empty" THEN <<>>
    ELSE IF r = "unknown" THEN StTxtNoReconocer
    ELSE IF r = "request_error" THEN StTxtServicio(ExcMsg)
    ELSE StTxtInesperado(ExcMsg)

TranscribeEnded(c, r) ==
    IF r = "open_error" \/ c = "error" \/ r = "record_error" THEN "critical"
    ELSE IF r = "text" THEN "success"
    ELSE IF r = "empty" THEN "empty"
    ELSE IF r = "unknown" THEN "unrecognized"
    ELSE IF r = "request_error" THEN "service"
    ELSE "critical"

\* app_streamlit.py lines 86-88: the converted WAV is removed only on the
\* path where recognize_google returned.
TranscribeCleanup(d, c, r) ==
    IF c = "ok" /\ r \in {"text", "empty"} /\ wav_path # temp_path /\ wav_path \in d
    THEN d \ {wav_path}
    ELSE d

\* app_streamlit.py lines 78-97.
Transcribe ==
    /\ app = "streamlit"
    /\ pc = "transcribe"
    /\ \E c \in {"ok", "error"},
          r \in {"open_error", "record_error", "text", "empty", "unknown",
                 "request_error", "exception"},
          t \in RemoteTexts :
        /\ r = "open_error" => c = "ok"
        /\ (r # "text" \/ c = "error") => t = <<"hola", "mundo">>
        /\ (c = "error") => r = "exception"
        /\ calib' = IF r = "open_error" THEN "none" ELSE c
        /\ text' = TranscribeText(c, r, t)
        /\ remoteCalls' = IF c = "error" \/ r \in {"open_error", "record_error"} THEN 0 ELSE 1
        /\ ended' = TranscribeEnded(c, r)
        /\ disk' = TranscribeCleanup(disk, c, r)
    /\ pc' = "append"
    /\ UNCHANGED <<temp_path, wav_path>>
    /\ UNCHANGED ChainVars
    /\ UNCHANGED SessionVars
    /\ UNCHANGED RunVars

\* The result put at the head of the session list.
AppendResultPrepends ==
    /\ app = "streamlit"
    /\ pc = "append"
    /\ transcriptions' = <<Result(filename, text)>> \o transcriptions
    /\ processed_files' = <<filename>> \o processed_files
    /\ truth' = <<Truth(ended)>> \o truth
    /\ pc' = "display"
    /\ UNCHANGED <<debug_wavs, disk>>
    /\ UNCHANGED JobVars
    /\ UNCHANGED ChainVars
    /\ UNCHANGED RunVars

\* app_streamlit.py lines 217-226.
AppendResult ==
    /\ app = "streamlit"
    /\ pc = "append"
    /\ transcriptions' = Append(transcriptions, Result(filename, text))
    /\ processed_files' = Append(processed_files, filename)
    /\ truth' = Append(truth, Truth(ended))
    /\ pc' = "display"
    /\ UNCHANGED <<debug_wavs, disk>>
    /\ UNCHANGED JobVars
    /\ UNCHANGED ChainVars
    /\ UNCHANGED RunVars

\* app_streamlit.py lines 228-263: the result widgets, inside the try block.
Display ==
    /\ app = "streamlit"
    /\ pc = "display"
    /\ \E raised \in BOOLEAN : pc' = IF raised THEN "except" ELSE "unlink"
    /\ UNCHANGED disk
    /\ UNCHANGED JobVars
    /\ UNCHANGED ChainVars
    /\ UNCHANGED SessionVars
    /\ UNCHANGED RunVars

\* The for loop goes to the next file, or ends.
NextFile ==
    /\ i' = i + 1
    /\ pc' = IF i < Len(uploaded_files) THEN "progress" ELSE "summary"

\* app_streamlit.py lines 265-266, the last statement of the try block.
Unlink ==
    /\ app = "streamlit"
    /\ pc = "unlink"
    /\ \E raised \in BOOLEAN :
        IF raised
        THEN pc' = "except" /\ UNCHANGED <<disk, i>>
        ELSE disk' = disk \ {temp_path} /\ NextFile
    /\ UNCHANGED JobVars
    /\ UNCHANGED ChainVars
    /\ UNCHANGED SessionVars
    /\ UNCHANGED <<app, uploaded_files, jobNo, runs, excepted, progress, summary, escaped, magic>>

\* The handler gone: the exception leaves process_files.
ExceptBatchPropagates ==
    /\ app = "streamlit"
    /\ pc = "except"
    /\ excepted' = excepted \cup {i}
    /\ escaped' = TRUE
    /\ pc' = "idle"
    /\ UNCHANGED disk
    /\ UNCHANGED JobVars
    /\ UNCHANGED ChainVars
    /\ UNCHANGED SessionVars
    /\ UNCHANGED <<app, uploaded_files, i, jobNo, runs, progress, summary, magic>>

\* app_streamlit.py lines 268-269: the handler shows the error; the loop
\* goes on.
ExceptBatch ==
    /\ app = "streamlit"
    /\ pc = "except"
    /\ excepted' = excepted \cup {i}
    /\ NextFile
    /\ UNCHANGED disk
    /\ UNCHANGED JobVars
    /\ UNCHANGED ChainVars
    /\ UNCHANGED SessionVars
    /\ UNCHANGED <<app, uploaded_files, jobNo, runs, progress, summary, escaped, magic>>

\* app_streamlit.py line 277: "Error" not in t['transcription'], over the
\* whole session list.
Successful(trs) ==
    Cardinality({k \in DOMAIN trs : ~IsInfix(<<"Error">>, trs[k].transcription)})

\* app_streamlit.py lines 271-278.
Summary ==
    /\ app = "streamlit"
    /\ pc = "summary"
    /\ summary' = <<Successful(transcriptions),
                    Len(uploaded_files) - Successful(transcriptions)>>
    /\ pc' = "idle"
    /\ ResetJob
    /\ UNCHANGED disk
    /\ UNCHANGED SessionVars
    /\ UNCHANGED <<app, uploaded_files, i, jobNo, runs, excepted, progress, escaped, magic>>

\* app_streamlit.py lines 188-191.
ClearResults ==
    /\ app = "streamlit"
    /\ pc = "idle"
    /\ transcriptions' = <<>>
    /\ processed_files' = <<>>
    /\ truth' = <<>>
    /\ UNCHANGED <<pc, disk, debug_wavs>>
    /\ UNCHANGED JobVars
    /\ UNCHANGED ChainVars
    /\ UNCHANGED RunVars

\* app.py lines 584-587 and 632: a result counts as a success unless its
\* text starts with the cross mark.
Exitosas(trs) ==
    Cardinality({k \in DOMAIN trs : ~StartsWith(trs[k].transcription, <<X>>)})

\* ------------------------------------------------------ the whole session
\* After init_session_state (app.py 107-111, app_streamlit.py 19-23), no
\* temp file of the session on disk, the page waiting for a button.
Init ==
    /\ app \in {"debug", "streamlit"}
    /\ pc = "idle"
    /\ transcriptions = <<>>
    /\ processed_files = <<>>
    /\ debug_wavs = {}
    /\ disk = {}
    /\ uploaded_files = <<>>
    /\ i = 1
    /\ jobNo = 0
    /\ runs = 0
    /\ temp_path = None
    /\ wav_path = None
    /\ text = <<>>
    /\ strategies = <<>>
    /\ s = 0
    /\ chain_wav = None
    /\ wavFile = EmptyFile
    /\ wavWriter = 0
    /\ attempts = <<>>
    /\ lastOutcome = "none"
    /\ remoteCalls = 0
    /\ ended = "none"
    /\ calib = "none"
    /\ truth = <<>>
    /\ excepted = {}
    /\ progress = <<0, 1>>
    /\ summary = <<0, 0>>
    /\ escaped = FALSE
    /\ magic = "none"

Next ==
    \/ StartSingle
    \/ SaveTempSingle
    \/ TestRecognizer
    \/ ChainStart
    \/ AttemptCmd
    \/ AttemptPydub
    \/ TwoStepStage1
    \/ TwoStepStage2
    \/ ChainExhausted
    \/ ChainReturned
    \/ ChainRaised
    \/ Recognize
    \/ AppendSingle
    \/ FinalUI
    \/ ExceptSingle
    \/ FinallySingle
    \/ ClearDebug
    \/ StartBatch
    \/ Progress
    \/ SaveTemp
    \/ Convert
    \/ Transcribe
    \/ AppendResult
    \/ Display
    \/ Unlink
    \/ ExceptBatch
    \/ Summary
    \/ ClearResults

Spec == Init /\ [][Next]_vars

\* A session of app_streamlit.py alone.
BatchInit == Init /\ app = "streamlit"

BatchNext ==
    \/ StartBatch
    \/ Progress
    \/ SaveTemp
    \/ Convert
    \/ Transcribe
    \/ AppendResult
    \/ Display
    \/ Unlink
    \/ ExceptBatch
    \/ Summary
    \/ ClearResults

BatchSpec == BatchInit /\ [][BatchNext]_vars


\* ------------------------------------------- properties of the chain
ChainOrder == <<"permissive", "standard", "pydub", "two_step">>

IsPrefix(a, b) == Len(a) <= Len(b) /\ SubSeq(b, 1, Len(a)) = a

ChainEnded == pc \in {"chain_returned", "chain_raised"}

\* C3: the chain returns only out of an attempt whose file passed the size
\* check and verify_wav_file; an attempt that ends in a tool failure, a
\* timeout or an invalid file does not return, and the enumeration moves to
\* the next strategy.
C3_ReturnsOnlyValidated ==
    [][/\ (pc # "chain_returned" /\ pc' = "chain_returned") =>
            /\ lastOutcome' = "Success"
            /\ wavFile'.size > MinWavSize
            /\ wavFile'.header
            /\ wavFile'.framerate # 0
            /\ wavFile'.frames >= MinFrames
            /\ wavFile'.frames * 10 >= wavFile'.framerate
       /\ (pc \in {"attempt", "stage2"} /\ s <= Len(strategies)
             /\ lastOutcome' \in {"ToolFailure", "Timeout", "ValidationFailure"}) =>
            /\ pc' = "attempt"
            /\ s' = s + 1]_vars

C3_Witness ==
    /\ pc = "chain_returned"
    /\ Len(attempts) >= 2
    /\ wavWriter = s

\* C4: for a file named after the messaging-app convention or with an
\* Ogg-family extension the attempts made are, at every moment, a prefix
\* of permissive, standard, in-process decode, two-stage raw, and all four
\* have been made when the chain gives up.
C4_Conventional == {NamePTT, NameWA, NameAUD, NameOGG, NameOga}

C4_PermissiveFirstInOrder ==
    (filename \in C4_Conventional /\ pc # "chain_start") =>
        /\ IsPrefix(attempts, ChainOrder)
        /\ (pc = "attempt" => Len(attempts) = s - 1)
        /\ (pc = "chain_raised" => attempts = ChainOrder)

C4_Witness ==
    /\ filename = NameOGG
    /\ pc = "chain_raised"
    /\ attempts = ChainOrder

\* C5 as stated: every artifact the chain returns is mono, 16 kHz, at
\* least 0.1 s long and at least 100 frames long.
C5_ReturnedIsCanonical ==
    pc = "chain_returned" =>
        /\ wavFile.channels = 1
        /\ wavFile.framerate = 16000
        /\ wavFile.frames * 10 >= wavFile.framerate
        /\ wavFile.frames >= MinFrames

\* C5 amended: every artifact the chain returns is at least 0.1 s long, at
\* least 100 frames long and larger than 1000 bytes; its channel count and
\* sample rate are whatever the strategy wrote.
C5_ReturnedIsNonEmpty ==
    pc = "chain_returned" =>
        /\ wavFile.frames * 10 >= wavFile.framerate
        /\ wavFile.frames >= MinFrames
        /\ wavFile.size > MinWavSize

C5_Witness ==
    /\ pc = "chain_returned"
    /\ wavFile.channels = 2
    /\ wavFile.framerate = 400

\* C9: when the chain gives up it raises, transcribe_audio never receives a
\* path, every strategy has been attempted, and neither the output file nor
\* the raw intermediate exists.
C9_ExhaustionLeavesNothing ==
    /\ pc = "chain_raised" =>
        /\ wav_path = None
        /\ attempts = [k \in 1..Len(strategies) |-> strategies[k].name]
        /\ WavPath(jobNo) \notin disk
        /\ RawPath(jobNo) \notin disk
    /\ (pc = "attempt" /\ s > Len(strategies)) => lastOutcome # "Success"

C9_Witness ==
    /\ pc = "chain_raised"
    /\ wavWriter = 4

\* C10: the chain always terminates: once started it returns or raises.
C10_ChainTerminates == (pc = "chain_start") ~> ChainEnded

\* C14: an attempt that is accepted ends the chain in the same step, with
\* the file that attempt wrote; the loop moves to the next strategy only
\* after an attempt that was not accepted, so that the chain returns at the
\* first strategy of its order whose attempt succeeds and has attempted
\* exactly the strategies up to it.
C14_FirstSuccessReturns ==
    [][/\ (attempts' # attempts \/ pc = "stage2") =>
            /\ lastOutcome' = "Success" =>
                    (pc' = "chain_returned" /\ s' = s /\ wavWriter' = s)
            /\ s' = s + 1 => lastOutcome' # "Success"
       /\ pc' = "chain_returned" =>
            /\ lastOutcome' = "Success"
            /\ Len(attempts') = s'
            /\ \A k \in 1..s' : attempts'[k] = strategies[k].name]_vars

C14_Witness ==
    /\ pc = "chain_returned"
    /\ Len(strategies) = 4
    /\ s = 2
    /\ attempts = <<"permissive", "standard">>
    /\ wavWriter = 2

\* A file no strategy may return: not larger than 1000 bytes, header
\* unreadable, shorter than 0.1 s or shorter than 100 frames.
Unusable(f) ==
    \/ f.size <= MinWavSize
    \/ ~f.header
    \/ f.framerate = 0
    \/ f.frames * 10 < f.framerate
    \/ f.frames < MinFrames

\* The file at the output path was written by the attempt just made, and
\* the tool of that attempt completed.
Judged ==
    /\ lastOutcome \in {"Success", "ValidationFailure"}
    /\ \/ pc = "chain_returned" /\ wavWriter = s
       \/ pc = "attempt" /\ wavWriter = s - 1

\* C15: a file written by a completed tool is rejected exactly when it is
\* not larger than 1000 bytes, its header cannot be read, it is shorter than
\* 0.1 s or shorter than 100 frames; its channel count and frame rate have
\* no part in the verdict.
C15_InvalidExactlyWhenUnusable ==
    Judged => (lastOutcome = "ValidationFailure" <=> Unusable(wavFile))

C15_Witness ==
    /\ Judged
    /\ lastOutcome = "ValidationFailure"
    /\ wavFile.header
    /\ wavFile.size > MinWavSize
    /\ wavFile.frames < MinFrames
    /\ wavFile.frames * 10 >= wavFile.framerate
    /\ wavFile.channels = 1

\* -------------------------------------------- properties of the jobs
\* The results appended for job k of the run in progress.
ResultsOf(k) == {n \in DOMAIN truth : truth[n].run = runs /\ truth[n].idx = k}

\* The run has processed its last file and is about to return.
RunEnding == pc \in {"summary", "finally"}

\* C1: when a run ends, exactly one result has been appended for each of
\* its jobs, however the job ended.
C1_OneResultPerJob ==
    RunEnding => \A k \in 1..Len(uploaded_files) : Cardinality(ResultsOf(k)) = 1

\* C2: when transcribe_audio has returned, the WAV the conversion created
\* for the job is gone, unless app.py keeps it for the debug download and
\* the debug store holds it.
C2_WavReleasedOnReturn ==
    pc = "append" =>
        \/ WavPath(jobNo) \notin disk
        \/ (app = "debug" /\ filename \in debug_wavs)

\* How each program counts a result as a success (the summary of
\* process_files, the sidebar metric of app.py).
CountedAsSuccess(k) ==
    IF app = "debug"
    THEN Exitosas(<<transcriptions[k]>>) = 1
    ELSE Successful(<<transcriptions[k]>>) = 1

\* C6: the result of a job whose remote call returned the empty string is
\* never counted as a success.
C6_EmptyIsNotSuccess ==
    \A k \in DOMAIN truth : truth[k].outcome = "empty" => ~CountedAsSuccess(k)

\* C7: no exception leaves process_files, and when the loop ends every
\* file of the list has been taken up: each one has a result or went
\* through the handler, the last one included.
C7_BatchSurvivesExceptions ==
    /\ ~escaped
    /\ pc = "summary" =>
        /\ i = Len(uploaded_files) + 1
        /\ progress = <<Len(uploaded_files), Len(uploaded_files)>>
        /\ \A k \in 1..Len(uploaded_files) : k \in excepted \/ ResultsOf(k) # {}

C7_Witness ==
    /\ pc = "summary"
    /\ Len(uploaded_files) = 2
    /\ 1 \in excepted
    /\ ResultsOf(1) = {}
    /\ ResultsOf(2) # {}

\* C8: once a run is over no temp copy of an uploaded file is on disk.
C8_InputCopiesReleased ==
    pc = "idle" => \A j \in 1..jobNo : InPath(j) \notin disk

\* ---------------------------------------------------------------------
\* properties of conversion and recognition within a job

\* The texts a job gets when no valid WAV could be made.
ConversionTexts ==
    IF app = "debug" THEN {TxtError(ChainMsg), TxtNoWav} ELSE {StTxtConversion}

ReportedSuccesses ==
    IF app = "debug" THEN Exitosas(transcriptions) ELSE Successful(transcriptions)

\* The results of the session list whose remote call returned a non-empty
\* transcript.
TrueSuccesses == Cardinality({k \in DOMAIN truth : truth[k].outcome = "success"})

\* C12: the number of successes shown, when the summary is computed or the
\* page is drawn, is the number of results whose remote call returned a
\* non-empty transcript, whatever the words of the transcripts.
C12_SuccessCountIsTrue ==
    pc \in {"summary", "idle"} => ReportedSuccesses = TrueSuccesses

\* C13: in the step in which process_files shows its summary, the two
\* counts are not negative, add up to the number of files of the batch, and
\* the count of successes does not exceed the results the batch itself
\* appended, whatever earlier batches left in the session list.
C13_CountsCoverTheBatch ==
    [][(pc = "summary" /\ pc' = "idle") =>
          /\ summary'[1] >= 0
          /\ summary'[2] >= 0
          /\ summary'[1] + summary'[2] = Len(uploaded_files)
          /\ summary'[1] <= Cardinality({n \in DOMAIN truth : truth[n].run = runs})]_vars

\* ---------------------------------------------------------------------
\* properties of the recognition step

\* C16: a job whose calibration raised, whatever it raised, has sent its
\* audio to the remote recognizer by the time its result is appended.  The
\* one case left out is a calibration error that was caught (AttributeError
\* in app.py) followed by a failure of the reading of the audio itself.
C16_CalibrationFailureTolerated ==
    (pc = "append" /\ calib \notin {"none", "ok"}) =>
        \/ remoteCalls >= 1
        \/ (calib = "attr_error" /\ ended = "critical")

\* C17: the remote recognizer is called at most once for a job, also when
\* it answered that it could not understand the audio.
C17_RemoteCalledAtMostOnce ==
    remoteCalls <= 1

\* The categories a result is told apart by.
Categories == {"success", "unrecognized", "service", "conversion"}

\* The text advises the user what to check.
HasGuidance(txt) == IsInfix(<<"Verifica">>, txt)

\* The text is the one of a handler of unexpected exceptions.
IsCriticalText(txt) ==
    \/ StartsWith(txt, <<X, "Error">>)
    \/ StartsWith(txt, <<"Error", "inesperado">>)

\* Results of different categories have different texts.
CategoriesTellApart ==
    \A k, m \in DOMAIN truth :
        (/\ truth[k].outcome \in Categories
         /\ truth[m].outcome \in Categories
         /\ truth[k].outcome # truth[m].outcome)
        => transcriptions[k].transcription # transcriptions[m].transcription

\* C18: the recorded result of a job the remote could not understand
\* carries guidance and is not the text of the critical-error handler, and
\* the texts of a could-not-understand, a service-error, a conversion-error
\* and a successful result are pairwise different.
C18_ResultTellsCategory ==
    /\ \A k \in DOMAIN truth :
          truth[k].outcome = "unrecognized" =>
              /\ HasGuidance(transcriptions[k].transcription)
              /\ ~IsCriticalText(transcriptions[k].transcription)
    /\ CategoriesTellApart

\* C19: while process_files is at work on file i of its list, the fraction
\* its progress bar shows is at most the fraction of the files it has
\* finished, (i - 1) / len(uploaded_files): the bar moves for a file only
\* after that file's result is there.
C19_ProgressFollowsCompletion ==
    (app = "streamlit" /\ pc \notin {"idle", "summary"}) =>
        progress[1] * Len(uploaded_files) <= (i - 1) * progress[2]

\* ---------------------------------------------------------------------
\* properties of the session list

\* C20: every step leaves the session list as it is, or appends one result
\* at its end, or, for the reset button on the idle page only, replaces it
\* by the empty list; no entry is changed, removed alone or moved.
C20_ResultsAppendOnly ==
    [][\/ transcriptions' = transcriptions
       \/ /\ Len(transcriptions') = Len(transcriptions) + 1
          /\ SubSeq(transcriptions', 1, Len(transcriptions)) = transcriptions
       \/ /\ transcriptions' = <<>>
          /\ processed_files' = <<>>
          /\ app = "streamlit"
          /\ pc = "idle"
          /\ pc' = "idle"]_vars

C20_Witness ==
    /\ pc = "display"
    /\ runs = 2
    /\ summary[1] >= 1
    /\ Len(transcriptions) = 1
    /\ truth[1].run = 2

\* ---------------------------------------------------------------------
\* properties of the order of the jobs and of the release of their files

\* C21: the results process_files has appended for the batch in progress
\* belong to files the loop has already taken, carry the name of the file
\* at their index, and stand in the session list in the order of those
\* indices; a file has at most one of them.
C21_ResultsInInputOrder ==
    app = "streamlit" =>
        /\ \A n \in DOMAIN truth :
              truth[n].run = runs =>
                  /\ truth[n].idx <= i
                  /\ truth[n].idx \in DOMAIN uploaded_files
                  /\ transcriptions[n].filename = uploaded_files[truth[n].idx]
        /\ \A n, m \in DOMAIN truth :
              (n < m /\ truth[n].run = truth[m].run) => truth[n].idx < truth[m].idx

C21_Witness ==
    /\ app = "streamlit"
    /\ pc = "summary"
    /\ uploaded_files = <<NameMp3, NameWav>>
    /\ Len(transcriptions) = 2
    /\ transcriptions[1].filename = NameMp3
    /\ transcriptions[2].filename = NameWav

\* The converted WAV files app.py has kept on disk for the debug download.
RetainedWavs == {j \in 1..jobNo : app = "debug" /\ WavPath(j) \in disk}

\* C22: a step of a clear button (the only steps that leave the idle page
\* on the idle page) ends with the session list empty, the debug store
\* empty and no WAV kept for the debug download on disk.
C22_ClearReleasesEverything ==
    [][(pc = "idle" /\ pc' = "idle") =>
          /\ transcriptions' = <<>>
          /\ debug_wavs' = {}
          /\ RetainedWavs' = {}]_vars

\* C23: the handler of an unexpected exception of a job finishes, with the
\* critical-error result recorded where the program records one, only
\* when the job's temp copy of the input and its converted WAV are off disk.
C23_CleanupBeforeCriticalResult ==
    [][pc = "except" =>
          /\ InPath(jobNo) \notin disk'
          /\ WavPath(jobNo) \notin disk']_vars

\* ---------------------------------------------------------------------
\* properties of the chain: sniffing, diagnostics, determinism, files

\* C24: once the strategy list is built, the permissive transcode is its
\* first entry whenever the file starts with the Ogg signature, whatever
\* its name; when the file starts with no known signature the extension
\* and the voice-note naming decide.
C24_OggBytesGetPermissive ==
    strategies # <<>> =>
        /\ magic = "OggS" => strategies[1] = Permissive
        /\ magic = "other" =>
              (strategies[1] = Permissive <=> (is_opus(filename) \/ is_whatsapp(filename)))

\* C25: what transcribe_audio gets from the exception of the exhausted
\* chain, its message, names every strategy that was attempted, one entry
\* for each, in the order of the attempts.
C25_ExhaustionCarriesLog ==
    [][pc = "chain_raised" =>
          \E at \in [1..Len(attempts) -> 1..Len(text')] :
              /\ \A k \in 1..Len(attempts) : text'[at[k]] = attempts[k]
              /\ \A k, m \in 1..Len(attempts) : k < m => at[k] < at[m]]_vars

\* C27: the strategies of a run all write the one output path made when
\* the run began, and when the chain returns the file at that path was
\* written by the attempt that was accepted, the last one made, never left
\* there by an earlier attempt.
C27_ReturnedFileIsFresh ==
    /\ strategies # <<>> => chain_wav = WavPath(jobNo)
    /\ pc = "chain_returned" =>
          /\ lastOutcome = "Success"
          /\ wavWriter = s
          /\ wavWriter = Len(attempts)

C27_Witness ==
    /\ pc = "chain_returned"
    /\ attempts = <<"permissive", "standard", "pydub", "two_step">>
    /\ wavWriter = 4
    /\ chain_wav = WavPath(jobNo)

\* C28: the raw PCM file of the two-stage strategy is on disk only between
\* its two stages: once the attempt is left, by the return of the chain, by
\* a failed or timed-out stage or by a rejected file, it is gone.
C28_RawNeverOutlivesAttempt ==
    pc # "stage2" => RawPath(jobNo) \notin disk

C28_Witness ==
    /\ pc = "attempt"
    /\ s = Len(strategies) + 1
    /\ attempts[Len(attempts)] = "two_step"
    /\ wavWriter = Len(strategies)
    /\ lastOutcome = "Timeout"
    /\ RawPath(jobNo) \notin disk

====
